---- MODULE Spec2Model ----
(***************************************************************************)
(* A model of the cpugov D-Bus daemon (daemon/cpugov_daemon.py): the sysfs *)
(* governor files of the cores, the persisted choice in config.json, the   *)
(* restore done at construction and the SetGovernor handler, step by step  *)
(* (Spec); and of the window and its D-Bus client (src/window.py,          *)
(* src/dbus_client.py), which see the daemon through the bus (SpecUI).     *)
(***************************************************************************)
EXTENDS Integers, Sequences, FiniteSets, TLC

\* ------------------------------------------------------------------------
\* Bounds and the values inputs are drawn from
\* ------------------------------------------------------------------------

\* Number of cpuN directories under /sys/devices/system/cpu.
NumCores == 2

\* The indices N of the cpuN directories, in the order they are added as
\* NumCores grows.  2 and 10 come first: "cpu10" sorts before "cpu2" as a
\* string and after it as a number.
CoreIndex == <<2, 10, 0, 1>>

Cores == {CoreIndex[i] : i \in 1..NumCores}

\* Governor names the kernel may offer in scaling_available_governors.
KernelGovernors == {"performance", "powersave"}

\* Governor names a caller may pass to SetGovernor, or config.json may hold.
GovernorNames == KernelGovernors \cup {"turbo"}

\* Unique bus names of the callers (the sender keyword of a method call).
Senders == {":1.10", ":1.11"}

\* ------------------------------------------------------------------------
\* Program constants
\* ------------------------------------------------------------------------

POLKIT_ACTION_SET == "io.github.serverket.cpugov.set-governor"

InvalidGovernorError == "io.github.serverket.cpugov.Error.InvalidGovernor"

NotAuthorizedError == "org.freedesktop.PolicyKit1.Error.NotAuthorized"

\* What the file at CONFIG_PATH can hold: no file, text that is not JSON, a
\* JSON value that is not an object, an object without the "governor" key, an
\* object whose "governor" is a number, or the object {"governor": g},
\* written here as g itself.
ConfigContents ==
    {"missing", "notjson", "nonobject", "nokey", "nonstring"} \cup GovernorNames

\* Outcomes of the CheckAuthorization round trip to polkit.
AuthOutcomes == {"granted", "denied", "unreachable", "timeout"}

\* Outcomes of _save_governor: written; failed in makedirs or open (file as it
\* was); failed in the write after open(..., "w") had truncated the file.
SaveOutcomes == {"ok", "fail_open", "fail_write"}

VARIABLES
    hasGovernorFile,              \* [core -> BOOLEAN] cpufreq/scaling_governor exists
    scaling_governor,             \* [core -> governor] content of that file
    scaling_available_governors,  \* names in that file of the first enumerated core
    config,                       \* content of CONFIG_PATH
    pc,                           \* the daemon's position
    op,                           \* the operation running or last run
    governor,                     \* its governor: SetGovernor's argument, restore's saved
    sender,                       \* SetGovernor's sender
    available,                    \* the accepted set it read for validation
    cpu_dirs,                     \* the cores it enumerated for its writes
    idx,                          \* position of its write loop in cpu_dirs
    attempted,                    \* cores whose sysfs write it has attempted
    failed,                       \* cores whose sysfs write raised
    authLog,                      \* the CheckAuthorization calls it has made
    emitted,                      \* the GovernorChanged signals it has emitted
    saveLog,                      \* the outcomes of its _save_governor calls
    configBefore,                 \* config when it started
    result,                       \* what the caller got: pending, True or a fault
    lastSaved,                    \* governor of the latest _save_governor that wrote
    previous,                     \* in a SetGovernor that follows a SetGovernor that
                                  \* returned True: the governor of that earlier call
    reply,                        \* what the read-only method last called returned
    \* the window (src/window.py) and its client (src/dbus_client.py)
    nameOwner,                    \* the daemon owns BUS_NAME: get_name_owner() is not None
    _proxy,                       \* self._proxy is not None
    connectCall,                  \* a Gio.DBusProxy.new_for_bus is in flight
    view,                         \* what the window shows: connecting, error, main
    _refresh_timer,               \* the timeout source of _on_refresh_tick is installed
    subscribed,                   \* _on_signal is connected to the proxy's g-signal
    _current_governor,            \* the governor the window highlights
    _available_governors,         \* the governors it has a button for
    inflight,                     \* [method -> calls sent whose _done has not run]
    rpcLog,                       \* what the handler that ran last did with the client
    observed                      \* where the window last saw the daemon unavailable

\* The state of the daemon and the files it works on.
daemon == <<hasGovernorFile, scaling_governor, scaling_available_governors, config,
            pc, op, governor, sender, available, cpu_dirs, idx, attempted, failed,
            authLog, emitted, saveLog, configBefore, result, lastSaved, previous,
            reply>>

\* The state of the window, its client and the bus name they watch.
ui == <<nameOwner, _proxy, connectCall, view, _refresh_timer, subscribed,
        _current_governor, _available_governors, inflight, rpcLog, observed>>

vars == <<daemon, ui>>

kernel == <<hasGovernorFile, scaling_governor, scaling_available_governors>>

callLog == <<attempted, failed, authLog, emitted, saveLog>>

\* ------------------------------------------------------------------------
\* Helper methods
\* ------------------------------------------------------------------------

Min(S) == CHOOSE x \in S : \A y \in S : x <= y

RECURSIVE SortedSeq(_)
\* sorted(..., key=int(basename[3:])): ascending by core index
SortedSeq(S) == IF S = {} THEN <<>> ELSE <<Min(S)>> \o SortedSeq(S \ {Min(S)})

\* The decimal digits of a core index below 100, as in the name "cpuN".
Digits(n) == IF n < 10 THEN <<n>> ELSE <<n \div 10, n % 10>>

\* "cpu<a>" <= "cpu<b>" as strings.
LexLeq(a, b) ==
    LET da == Digits(a)
        db == Digits(b)
    IN  \/ da[1] < db[1]
        \/ da[1] = db[1] /\ Len(da) < Len(db)
        \/ da[1] = db[1] /\ Len(da) = Len(db) /\ a <= b

LexMin(S) == CHOOSE x \in S : \A y \in S : LexLeq(x, y)

RECURSIVE SortedLex(_)
SortedLex(S) == IF S = {} THEN <<>> ELSE <<LexMin(S)>> \o SortedLex(S \ {LexMin(S)})

\* sorted() without its key: the directories in the order of their names,
\* cpu10 before cpu2.
_get_cpu_dirs_Lexical == SortedLex({c \in Cores : hasGovernorFile[c]})

\* The glob "cpu[0-9]" in place of "cpu[0-9]*": single-digit cores only.
_get_cpu_dirs_SingleDigit == SortedSeq({c \in Cores : hasGovernorFile[c] /\ c < 10})

\* _get_cpu_dirs: the cpuN directories in numeric order, kept when they hold
\* cpufreq/scaling_governor.
_get_cpu_dirs == SortedSeq({c \in Cores : hasGovernorFile[c]})

\* GetAvailableGovernors: [] without cores, else the names in cpu_dirs[0]'s
\* scaling_available_governors.
GetAvailableGovernors ==
    IF _get_cpu_dirs = <<>> THEN {} ELSE scaling_available_governors

\* _load_saved_governor: None for a missing or unreadable file and for text
\* that is not JSON; config.get("governor") otherwise, which is None for an
\* object without the key and raises AttributeError for a non-object.
_load_saved_governor(ioError) ==
    IF ioError \/ config \in {"missing", "notjson"} THEN "None"
    ELSE IF config = "nokey" THEN "None"
    ELSE IF config = "nonobject" THEN "AttributeError"
    ELSE config

\* The file opened in exclusive-create mode: an existing record is kept.
_save_governor_NoOverwrite(g, outcome) ==
    IF outcome = "ok" /\ config = "missing" THEN g
    ELSE IF outcome = "fail_write" THEN "notjson"
    ELSE config

\* _save_governor's effect on the file at CONFIG_PATH.
_save_governor(g, outcome) ==
    CASE outcome = "ok"         -> g
      [] outcome = "fail_open"  -> config
      [] outcome = "fail_write" -> "notjson"

\* The error a caller gets when _check_polkit_auth raises: the daemon's own
\* NotAuthorized for result[0] false, else the D-Bus error of the failed call.
AuthFault(outcome) ==
    CASE outcome = "denied"      -> NotAuthorizedError
      [] outcome = "unreachable" -> "org.freedesktop.DBus.Error.ServiceUnknown"
      [] outcome = "timeout"     -> "org.freedesktop.DBus.Error.NoReply"

\* What the caller of a method gets: the D-Bus error name of the exception
\* raised, with the governor and the accepted set its message names, or True.
Fault(name, value, accepted) == [name |-> name, value |-> value, accepted |-> accepted]

NoResult == [name |-> "pending", value |-> "None", accepted |-> {}]

Success == [name |-> "True", value |-> "None", accepted |-> {}]

\* The first "model name" line of /proc/cpuinfo, "None" when the file is
\* unreadable or has no such line.
CpuInfoLines == {"None", "Model X"}

\* The return values of GetGovernor, GetAvailableGovernors and GetCpuInfo;
\* a method fills its own field.
NoInfo == [model |-> "None", core_count |-> 0, per_core |-> <<>>]

NoReply == [governor |-> "None", governors |-> {}, info |-> NoInfo]

\* ------------------------------------------------------------------------
\* The client: what its request methods do with the proxy and the callback
\* ------------------------------------------------------------------------

\* The methods the client calls on the daemon.
Methods == {"GetGovernor", "GetAvailableGovernors", "SetGovernor", "GetCpuInfo"}

\* Calls of one method that are sent and not yet answered.
MaxInFlight == 2

\* is_connected, lines 56-60: there is a proxy and the name has an owner.
is_connected == _proxy /\ nameOwner

\* What a handler did with the client: the request methods it called, the
\* calls it sent through the proxy and the callbacks it invoked, in order.
NoCalls == [called |-> <<>>, sent |-> <<>>, callbacks |-> <<>>]

Join(a, b) == [called    |-> a.called \o b.called,
               sent      |-> a.sent \o b.sent,
               callbacks |-> a.callbacks \o b.callbacks]

\* The first argument of a callback that carries an error: None, or False
\* for set_governor.
NoValue(m) == IF m = "SetGovernor" THEN "False" ELSE "None"

\* A callback invoked by the request method itself ("call") or by its _done
\* handler ("completion").
Callback(m, on, value, error) ==
    [method |-> m, on |-> on, result |-> value, error |-> error]

\* The is_connected test left out of the not-connected branch: the callback
\* gets the error and the call is sent all the same.
Request_SendsAnyway(m, connected) ==
    [called    |-> <<m>>,
     sent      |-> <<m>>,
     callbacks |-> IF connected THEN <<>>
                   ELSE <<Callback(m, "call", NoValue(m), "Not connected to daemon")>>]

\* get_governor, get_available_governors, set_governor, get_cpu_info: not
\* connected, the callback is invoked with the error and nothing is sent;
\* connected, the call is sent with the _done handler as its callback.
Request(m, connected) ==
    IF connected
    THEN [called |-> <<m>>, sent |-> <<m>>, callbacks |-> <<>>]
    ELSE [called    |-> <<m>>,
          sent      |-> <<>>,
          callbacks |-> <<Callback(m, "call", NoValue(m), "Not connected to daemon")>>]

\* A _done handler that passes the value along with the error.
Completion_ErrorWithResult(m, ok, value) ==
    Callback(m, "completion", value, IF ok THEN "None" ELSE "GLib.Error")

\* _on_get_governor_done and the three like it: call_finish returns and the
\* callback gets the unpacked value and no error, or call_finish raises
\* GLib.Error and the callback gets no value and the error.
Completion(m, ok, value) ==
    IF ok THEN Callback(m, "completion", value, "None")
    ELSE Callback(m, "completion", NoValue(m), "GLib.Error")

\* _request_refresh, lines 333-336.  _on_governor_refresh and
\* _on_cpu_info_refresh return at once when they get an error.
_request_refresh(connected) ==
    Join(Request("GetGovernor", connected), Request("GetCpuInfo", connected))

\* _on_set_governor_result, lines 293-305: on an error, a dialog and a refresh.
_on_set_governor_result(cb, connected) ==
    IF cb.error # "None" THEN _request_refresh(connected) ELSE NoCalls

\* How often m is in a sequence of method names.
Count(seq, m) == Cardinality({i \in 1..Len(seq) : seq[i] = m})

\* The calls in flight after a handler that did T, the _done handler of
\* method done when it was one.
InFlightAfter(T, done) ==
    [m \in Methods |-> inflight[m] + Count(T.sent, m) - (IF done = m THEN 1 ELSE 0)]

\* The handler did T with the client.
Handled(T, done) ==
    /\ \A m \in Methods : InFlightAfter(T, done)[m] \in 0..MaxInFlight
    /\ inflight' = InFlightAfter(T, done)
    /\ rpcLog' = [called |-> T.called, sent |-> T.sent, callbacks |-> T.callbacks,
                  completed |-> done]

NoRpcLog == [called |-> <<>>, sent |-> <<>>, callbacks |-> <<>>, completed |-> "None"]

\* No window is open.
NoWindow ==
    /\ nameOwner = FALSE
    /\ _proxy = FALSE
    /\ connectCall = FALSE
    /\ view = "none"
    /\ _refresh_timer = FALSE
    /\ subscribed = FALSE
    /\ _current_governor = "None"
    /\ _available_governors = {}
    /\ inflight = [m \in Methods |-> 0]
    /\ rpcLog = NoRpcLog
    /\ observed = "none"

\* CPUGovWindow.__init__, lines 34-53: the connecting view is shown and the
\* connection to the daemon is under way.
CPUGovWindow ==
    /\ _proxy = FALSE
    /\ connectCall = TRUE
    /\ view = "connecting"
    /\ _refresh_timer = FALSE
    /\ subscribed = FALSE
    /\ _current_governor = "None"
    /\ _available_governors = {}
    /\ inflight = [m \in Methods |-> 0]
    /\ rpcLog = NoRpcLog
    /\ observed = "none"

\* ------------------------------------------------------------------------
\* Initial state: the process is not running; the kernel files and the
\* config file hold anything.
\* ------------------------------------------------------------------------

\* The daemon process is not running.
ProcessStopped ==
    /\ pc = "stopped"
    /\ op = "none"
    /\ governor = "None"
    /\ sender = "None"
    /\ available = {}
    /\ cpu_dirs = <<>>
    /\ idx = 1
    /\ attempted = {}
    /\ failed = {}
    /\ authLog = <<>>
    /\ emitted = <<>>
    /\ saveLog = <<>>
    /\ configBefore = config
    /\ result = NoResult
    /\ lastSaved = "None"
    /\ previous = "None"
    /\ reply = NoReply

Init ==
    /\ hasGovernorFile \in [Cores -> BOOLEAN]
    /\ scaling_governor \in [Cores -> KernelGovernors]
    /\ scaling_available_governors \in SUBSET KernelGovernors
    /\ config \in ConfigContents
    /\ ProcessStopped
    /\ NoWindow

\* A server that hands a call to a second thread while SetGovernor is in its
\* write loop.
Dispatching_Threaded == pc \in {"ready", "set_write"}

\* main, lines 306-316: the handlers run in the one thread of the GLib main
\* loop, which takes the next method call when the handler before it has
\* returned.
Dispatching == pc = "ready"

\* A fresh operation: its log is empty.
BeginOp(name) ==
    /\ op' = name
    /\ attempted' = {}
    /\ failed' = {}
    /\ authLog' = <<>>
    /\ emitted' = <<>>
    /\ saveLog' = <<>>
    /\ configBefore' = config
    /\ previous' = IF name = "SetGovernor" /\ op = "SetGovernor" /\ result = Success
                   THEN governor ELSE "None"
    /\ UNCHANGED ui

\* ------------------------------------------------------------------------
\* __init__ / _restore_governor
\* ------------------------------------------------------------------------

\* The check of line 155 left out.
SavedUnavailable_Unchecked(saved, avail) == FALSE

\* Line 155: the saved governor is no longer offered.
SavedUnavailable(saved, avail) == saved \notin avail

\* The loop left after its first write.
RestoreLoopDone_FirstOnly(i, dirs) == TRUE

\* Line 161: the loop over cpu_dirs ends after its last element.
RestoreLoopDone(i, dirs) == i = Len(dirs)

\* The loop of _restore_governor without its try/except: a failed write ends it.
AfterRestoreWriteFailure_Aborts(i, dirs) == "ready"

\* Lines 166-168: a failed write is caught and logged, the loop goes on.
AfterRestoreWriteFailure(i, dirs) ==
    IF RestoreLoopDone(i, dirs) THEN "ready" ELSE "restore_write"

\* __init__ up to the first write of _restore_governor: load, enumerate,
\* validate against the first core's accepted set.
Start(ioError) ==
    /\ pc = "stopped"
    /\ BeginOp("restore")
    /\ result' = NoResult
    /\ LET saved == _load_saved_governor(ioError)
           dirs == _get_cpu_dirs
       IN  /\ governor' = saved
           /\ sender' = "None"
           /\ idx' = 1
           /\ IF saved = "AttributeError"
              THEN /\ pc' = "crashed"
                   /\ UNCHANGED <<available, cpu_dirs>>
              ELSE IF saved = "None"
              THEN /\ pc' = "ready"
                   /\ UNCHANGED <<available, cpu_dirs>>
              ELSE IF dirs = <<>>
              THEN /\ pc' = "ready"
                   /\ cpu_dirs' = dirs
                   /\ UNCHANGED available
              ELSE /\ cpu_dirs' = dirs
                   /\ available' = scaling_available_governors
                   /\ pc' = IF SavedUnavailable(saved, scaling_available_governors)
                            THEN "ready" ELSE "restore_write"
    /\ reply' = NoReply
    /\ UNCHANGED <<kernel, config, lastSaved>>

\* One turn of the loop of _restore_governor: the write of one core, whose
\* failure is caught and logged.
RestoreWrite(ok) ==
    /\ pc = "restore_write"
    /\ LET core == cpu_dirs[idx]
       IN  /\ attempted' = attempted \cup {core}
           /\ IF ok
              THEN /\ scaling_governor' = [scaling_governor EXCEPT ![core] = governor]
                   /\ UNCHANGED failed
              ELSE /\ failed' = failed \cup {core}
                   /\ UNCHANGED scaling_governor
    /\ idx' = idx + 1
    /\ pc' = IF ok
             THEN IF RestoreLoopDone(idx, cpu_dirs) THEN "ready" ELSE "restore_write"
             ELSE AfterRestoreWriteFailure(idx, cpu_dirs)
    /\ UNCHANGED <<hasGovernorFile, scaling_available_governors, config, op,
                   governor, sender, available, cpu_dirs, authLog, emitted,
                   saveLog, configBefore, result, lastSaved, previous,
                   reply, ui>>

\* The service is restarted (or the machine rebooted): config.json and the
\* kernel files stay as they are.
Restart ==
    /\ pc \in {"ready", "crashed"}
    /\ pc' = "stopped"
    /\ BeginOp("none")
    /\ result' = NoResult
    /\ governor' = "None"
    /\ sender' = "None"
    /\ available' = {}
    /\ cpu_dirs' = <<>>
    /\ idx' = 1
    /\ reply' = NoReply
    /\ UNCHANGED <<kernel, config, lastSaved>>

\* ------------------------------------------------------------------------
\* SetGovernor
\* ------------------------------------------------------------------------

\* The membership test left out.
IsInvalidGovernor_NeverRejects(g, avail) == FALSE

\* The governor checked against a built-in list, not the set read from sysfs.
IsInvalidGovernor_BuiltinList(g, avail) == g \notin KernelGovernors

\* Line 214: the membership test.
IsInvalidGovernor(g, avail) == g \notin avail

\* The polkit check left out: the writes follow the membership test.
AfterValidation_Unchecked == "set_enum"

\* The polkit check skipped once an earlier SetGovernor was let through.
AfterValidation_CachedGrant == IF lastSaved # "None" THEN "set_enum" ELSE "set_auth"

\* Line 222: _check_polkit_auth is called in every SetGovernor that passed
\* validation.
AfterValidation == "set_auth"

\* Lines 213-219: read the accepted set, reject a governor not in it.
SetGovernor_Validate(g, s) ==
    /\ Dispatching
    /\ BeginOp("SetGovernor")
    /\ governor' = g
    /\ sender' = s
    /\ available' = GetAvailableGovernors
    /\ cpu_dirs' = <<>>
    /\ idx' = 1
    /\ IF IsInvalidGovernor(g, GetAvailableGovernors)
       THEN /\ result' = Fault(InvalidGovernorError, g, GetAvailableGovernors)
            /\ pc' = "ready"
       ELSE /\ result' = NoResult
            /\ pc' = AfterValidation
    /\ reply' = NoReply
    /\ UNCHANGED <<kernel, config, lastSaved>>

\* Lines 88-91: the subject handed to polkit is the caller's bus name.
PolkitSubject(s) == s

\* result[0] ignored: any reply of polkit counts as a grant.
is_authorized_AnyReply(outcome) == outcome \in {"granted", "denied"}

\* Lines 101-102: result[0] of CheckAuthorization.
is_authorized(outcome) == outcome = "granted"

\* Line 222, _check_polkit_auth: one CheckAuthorization call for the sender;
\* anything but a grant raises and ends the call with that error.
SetGovernor_Auth(outcome) ==
    /\ pc = "set_auth"
    /\ authLog' = Append(authLog, [subject |-> PolkitSubject(sender),
                                   action |-> POLKIT_ACTION_SET,
                                   outcome |-> outcome])
    /\ IF is_authorized(outcome)
       THEN /\ pc' = "set_enum"
            /\ UNCHANGED result
       ELSE /\ result' = Fault(AuthFault(outcome), governor, available)
            /\ pc' = "ready"
    /\ UNCHANGED <<kernel, config, op, governor, sender, available, cpu_dirs,
                   idx, attempted, failed, emitted, saveLog, configBefore,
                   lastSaved, previous,
                   reply, ui>>

\* The choice persisted before the signal, which is then never reached.
AfterLastWrite_SaveFirst == "set_save"

\* Lines 230-231: the signal follows the write loop.
AfterLastWrite == "set_emit"

\* Line 225: the cores are enumerated for the writes.
SetGovernor_Enumerate ==
    /\ pc = "set_enum"
    /\ cpu_dirs' = _get_cpu_dirs
    /\ idx' = 1
    /\ pc' = IF _get_cpu_dirs = <<>> THEN AfterLastWrite ELSE "set_write"
    /\ UNCHANGED <<kernel, config, op, governor, sender, available, attempted,
                   failed, authLog, emitted, saveLog, configBefore, result,
                   lastSaved, previous,
                   reply, ui>>

\* Line 226: the loop over cpu_dirs ends after its last element.
SetLoopDone(i, dirs) == i = Len(dirs)

\* The error a caller gets when _write_sysfs raises out of SetGovernor.
OSErrorName == "org.freedesktop.DBus.Python.OSError"

\* Lines 226-228: one turn of the write loop.  Nothing catches the OSError of
\* _write_sysfs: it ends the loop and the call.
SetGovernor_Write(ok) ==
    /\ pc = "set_write"
    /\ LET core == cpu_dirs[idx]
       IN  /\ attempted' = attempted \cup {core}
           /\ IF ok
              THEN /\ scaling_governor' = [scaling_governor EXCEPT ![core] = governor]
                   /\ idx' = idx + 1
                   /\ pc' = IF SetLoopDone(idx, cpu_dirs) THEN AfterLastWrite ELSE "set_write"
                   /\ UNCHANGED <<failed, result>>
              ELSE /\ failed' = failed \cup {core}
                   /\ result' = Fault(OSErrorName, governor, available)
                   /\ pc' = "ready"
                   /\ UNCHANGED <<scaling_governor, idx>>
    /\ UNCHANGED <<hasGovernorFile, scaling_available_governors, config, op,
                   governor, sender, available, cpu_dirs, authLog, emitted,
                   saveLog, configBefore, lastSaved, previous,
                   reply, ui>>

\* The signal method never called.
GovernorChanged_NotSent(g) == emitted

\* Lines 293-296: the GovernorChanged signal, carrying the governor.
GovernorChanged(g) == Append(emitted, g)

\* Line 231: the GovernorChanged signal.
SetGovernor_Emit ==
    /\ pc = "set_emit"
    /\ emitted' = GovernorChanged(governor)
    /\ pc' = "set_save"
    /\ UNCHANGED <<kernel, config, op, governor, sender, available, cpu_dirs,
                   idx, attempted, failed, authLog, saveLog, configBefore,
                   result, lastSaved, previous,
                   reply, ui>>

\* _save_governor without its try/except: its OSError reaches the caller.
SaveReturn_Propagates(outcome) ==
    IF outcome = "ok" THEN Success ELSE Fault(OSErrorName, governor, available)

\* Lines 129-131 and 236: a failed save is caught and logged; True is
\* returned whatever the save did.
SaveReturn(outcome) == Success

\* Lines 234-236: _save_governor, whose failure is caught and logged, and
\* return True.
SetGovernor_Save(outcome) ==
    /\ pc = "set_save"
    /\ config' = _save_governor(governor, outcome)
    /\ saveLog' = Append(saveLog, outcome)
    /\ lastSaved' = CASE outcome = "ok"         -> governor
                      [] outcome = "fail_open"  -> lastSaved
                      [] outcome = "fail_write" -> "None"
    /\ result' = SaveReturn(outcome)
    /\ pc' = "ready"
    /\ UNCHANGED <<kernel, op, governor, sender, available, cpu_dirs, idx,
                   attempted, failed, authLog, emitted, configBefore, previous,
                   reply, ui>>

\* ------------------------------------------------------------------------
\* The read-only methods
\* ------------------------------------------------------------------------

\* _read_sysfs: the stripped content of the file, "" when reading it fails.
_read_sysfs(content, readable) == IF readable THEN content ELSE ""

\* _get_cpu_model: the text of the first "model name" line, else "Unknown".
_get_cpu_model(line) == IF line = "None" THEN "Unknown" ELSE line

\* A read-only method that asks polkit first, as SetGovernor does.
ReadOnlyCall_Authorizes(name) ==
    /\ pc = "ready"
    /\ pc' = "ready"
    /\ op' = name
    /\ attempted' = {}
    /\ failed' = {}
    /\ authLog' = <<[subject |-> PolkitSubject(sender), action |-> POLKIT_ACTION_SET,
                      outcome |-> "granted"]>>
    /\ emitted' = <<>>
    /\ saveLog' = <<>>
    /\ configBefore' = config
    /\ previous' = "None"
    /\ UNCHANGED ui
    /\ result' = Success
    /\ governor' = "None"
    /\ sender' = "None"
    /\ available' = {}
    /\ cpu_dirs' = _get_cpu_dirs
    /\ idx' = 1
    /\ UNCHANGED <<kernel, config, lastSaved>>

\* What a read-only method leaves of the state of the call before it: it
\* takes the sender and makes no use of it.
ReadOnlyCall(name) ==
    /\ Dispatching
    /\ pc' = "ready"
    /\ BeginOp(name)
    /\ result' = Success
    /\ governor' = "None"
    /\ sender' = "None"
    /\ available' = {}
    /\ cpu_dirs' = _get_cpu_dirs
    /\ idx' = 1
    /\ UNCHANGED <<kernel, config, lastSaved>>

\* GetGovernor, lines 181-187: "unknown" without cores, else the governor
\* file of cpu_dirs[0].
GetGovernor(readable) ==
    /\ ReadOnlyCall("GetGovernor")
    /\ reply' = [NoReply EXCEPT !.governor =
                    IF _get_cpu_dirs = <<>> THEN "unknown"
                    ELSE _read_sysfs(scaling_governor[_get_cpu_dirs[1]], readable)]

\* GetAvailableGovernors called over the bus, lines 195-202; an unreadable
\* file splits into no name.
GetAvailableGovernors_Call(readable) ==
    /\ ReadOnlyCall("GetAvailableGovernors")
    /\ reply' = [NoReply EXCEPT !.governors =
                    IF readable THEN GetAvailableGovernors ELSE {}]

\* The governor files whose read fails during one GetCpuInfo: none, or the
\* file of one enumerated core.
UnreadableSets == {{}} \cup {{c} : c \in {d \in Cores : hasGovernorFile[d]}}

\* core_count taken over the cpuN directories, with or without cpufreq.
CoreCount_AllDirs(dirs) == Cardinality(Cores)

\* Line 247: core_count = len(cpu_dirs).
CoreCount(dirs) == Len(dirs)

\* GetCpuInfo, lines 244-289: the model, the core count and one entry per
\* enumerated core, each field read on its own.  The frequency files and
\* the online descriptor are strings passed through _read_sysfs as read;
\* they are no state of this model.
GetCpuInfo(unreadable, line) ==
    /\ ReadOnlyCall("GetCpuInfo")
    /\ LET dirs == _get_cpu_dirs
       IN  reply' = [NoReply EXCEPT !.info =
                [model      |-> _get_cpu_model(line),
                 core_count |-> CoreCount(dirs),
                 per_core   |-> [i \in 1..Len(dirs) |->
                     [name     |-> dirs[i],
                      governor |-> _read_sysfs(scaling_governor[dirs[i]],
                                               dirs[i] \notin unreadable)]]]]

\* ------------------------------------------------------------------------
\* The kernel: a driver reload changes the governors it offers.
\* ------------------------------------------------------------------------

DriverReload(offered) ==
    /\ offered # scaling_available_governors
    /\ scaling_available_governors' = offered
    /\ UNCHANGED <<hasGovernorFile, scaling_governor, config, pc, op, governor,
                   sender, available, cpu_dirs, idx, attempted, failed, authLog,
                   emitted, saveLog, configBefore, result, lastSaved, previous,
                   reply, ui>>

Next ==
    \/ \E ioError \in BOOLEAN : Start(ioError)
    \/ \E ok \in BOOLEAN : RestoreWrite(ok)
    \/ Restart
    \/ \E g \in GovernorNames, s \in Senders : SetGovernor_Validate(g, s)
    \/ \E outcome \in AuthOutcomes : SetGovernor_Auth(outcome)
    \/ SetGovernor_Enumerate
    \/ \E ok \in BOOLEAN : SetGovernor_Write(ok)
    \/ SetGovernor_Emit
    \/ \E outcome \in SaveOutcomes : SetGovernor_Save(outcome)
    \/ \E readable \in BOOLEAN : GetGovernor(readable)
    \/ \E readable \in BOOLEAN : GetAvailableGovernors_Call(readable)
    \/ \E unreadable \in UnreadableSets, line \in CpuInfoLines : GetCpuInfo(unreadable, line)
    \/ \E offered \in SUBSET KernelGovernors : DriverReload(offered)

Spec == Init /\ [][Next]_vars

\* ------------------------------------------------------------------------
\* The window and its client.  They see the daemon through the bus: whether
\* BUS_NAME has an owner, and how each call they sent ends.
\* ------------------------------------------------------------------------

\* The governor names a reply or a signal of the daemon carries.
ReplyGovernors == KernelGovernors

\* _on_proxy_ready, lines 38-54, with the callbacks the window passes:
\* _on_daemon_error (the error view, with its Retry button) when
\* new_for_bus_finish raises or the name has no owner, else
\* _on_daemon_ready (lines 223-231): the main view, whose construction
\* requests a refresh and installs the timer (lines 206-212), the signal
\* subscription and the request for the available governors.
_on_proxy_ready(outcome) ==
    /\ connectCall
    /\ connectCall' = FALSE
    /\ IF outcome = "error" \/ ~nameOwner
       THEN /\ _proxy' = IF outcome = "error" THEN _proxy ELSE TRUE
            /\ view' = "error"
            /\ observed' = "connect"
            /\ Handled(NoCalls, "None")
            /\ UNCHANGED <<_refresh_timer, subscribed>>
       ELSE /\ _proxy' = TRUE
            /\ view' = "main"
            /\ observed' = "none"
            /\ _refresh_timer' = TRUE
            /\ subscribed' = TRUE
            /\ Handled(Join(_request_refresh(TRUE),
                            Request("GetAvailableGovernors", TRUE)), "None")
    /\ UNCHANGED <<daemon, nameOwner, _current_governor, _available_governors>>

\* _on_retry, lines 237-240: the button of the error view.
_on_retry ==
    /\ view = "error"
    /\ view' = "connecting"
    /\ connectCall' = TRUE
    /\ Handled(NoCalls, "None")
    /\ UNCHANGED <<daemon, nameOwner, _proxy, _refresh_timer, subscribed,
                   _current_governor, _available_governors, observed>>

\* _on_refresh_tick, lines 325-331: returning False removes the timeout
\* source; the view stays as it is.
_on_refresh_tick ==
    /\ _refresh_timer
    /\ IF ~is_connected
       THEN /\ _refresh_timer' = FALSE
            /\ observed' = "polling"
            /\ Handled(NoCalls, "None")
       ELSE /\ Handled(_request_refresh(TRUE), "None")
            /\ UNCHANGED <<_refresh_timer, observed>>
    /\ UNCHANGED <<daemon, nameOwner, _proxy, connectCall, view, subscribed,
                   _current_governor, _available_governors>>

\* _on_governor_clicked, lines 285-291: a button of the main view.
_on_governor_clicked(g) ==
    /\ view = "main"
    /\ g \in _available_governors
    /\ LET first == Request("SetGovernor", is_connected)
       IN  IF g = _current_governor
           THEN Handled(NoCalls, "None")
           ELSE IF is_connected
           THEN Handled(first, "None")
           ELSE Handled(Join(first, _on_set_governor_result(first.callbacks[1], FALSE)),
                        "None")
    /\ UNCHANGED <<daemon, nameOwner, _proxy, connectCall, view, _refresh_timer,
                   subscribed, _current_governor, _available_governors, observed>>

\* _on_get_governor_done, lines 82-88, with _on_governor_refresh (lines
\* 338-342) as its callback.
_on_get_governor_done(ok, g) ==
    /\ inflight["GetGovernor"] > 0
    /\ LET cb == Completion("GetGovernor", ok, g)
       IN  /\ Handled([NoCalls EXCEPT !.callbacks = <<cb>>], "GetGovernor")
           /\ _current_governor' =
                  IF cb.error # "None" \/ cb.result = "None" THEN _current_governor
                  ELSE cb.result
    /\ UNCHANGED <<daemon, nameOwner, _proxy, connectCall, view, _refresh_timer,
                   subscribed, _available_governors, observed>>

\* _on_get_available_done, lines 110-116, with _on_available_governors
\* (lines 244-251) as its callback: the buttons are rebuilt and a refresh is
\* requested.
_on_get_available_done(ok, governors) ==
    /\ inflight["GetAvailableGovernors"] > 0
    /\ LET cb == Completion("GetAvailableGovernors", ok, "list")
       IN  IF cb.error # "None"
           THEN /\ Handled([NoCalls EXCEPT !.callbacks = <<cb>>], "GetAvailableGovernors")
                /\ UNCHANGED _available_governors
           ELSE /\ Handled(Join([NoCalls EXCEPT !.callbacks = <<cb>>],
                                 _request_refresh(is_connected)),
                           "GetAvailableGovernors")
                /\ _available_governors' = governors
    /\ UNCHANGED <<daemon, nameOwner, _proxy, connectCall, view, _refresh_timer,
                   subscribed, _current_governor, observed>>

\* _on_set_governor_done, lines 139-145, with _on_set_governor_result as its
\* callback.
_on_set_governor_done(ok) ==
    /\ inflight["SetGovernor"] > 0
    /\ LET cb == Completion("SetGovernor", ok, "True")
       IN  Handled(Join([NoCalls EXCEPT !.callbacks = <<cb>>],
                        _on_set_governor_result(cb, is_connected)), "SetGovernor")
    /\ UNCHANGED <<daemon, nameOwner, _proxy, connectCall, view, _refresh_timer,
                   subscribed, _current_governor, _available_governors, observed>>

\* _on_get_cpu_info_done, lines 167-173, with _on_cpu_info_refresh as its
\* callback, which fills the rows of the main view.
_on_get_cpu_info_done(ok) ==
    /\ inflight["GetCpuInfo"] > 0
    /\ Handled([NoCalls EXCEPT !.callbacks = <<Completion("GetCpuInfo", ok, "info")>>],
               "GetCpuInfo")
    /\ UNCHANGED <<daemon, nameOwner, _proxy, connectCall, view, _refresh_timer,
                   subscribed, _current_governor, _available_governors, observed>>

\* _on_signal, lines 184-187, with _on_governor_signal (lines 307-313).
_on_signal(g) ==
    /\ subscribed
    /\ nameOwner
    /\ _current_governor' = g
    /\ Handled(NoCalls, "None")
    /\ UNCHANGED <<daemon, nameOwner, _proxy, connectCall, view, _refresh_timer,
                   subscribed, _available_governors, observed>>

\* The daemon stops: BUS_NAME loses its owner.
NameLost ==
    /\ nameOwner
    /\ nameOwner' = FALSE
    /\ rpcLog' = NoRpcLog
    /\ UNCHANGED <<daemon, _proxy, connectCall, view, _refresh_timer, subscribed,
                   _current_governor, _available_governors, inflight, observed>>

\* The daemon is started (again): BUS_NAME has an owner.
NameAcquired ==
    /\ ~nameOwner
    /\ nameOwner' = TRUE
    /\ rpcLog' = NoRpcLog
    /\ UNCHANGED <<daemon, _proxy, connectCall, view, _refresh_timer, subscribed,
                   _current_governor, _available_governors, inflight, observed>>

\* The window has been constructed; the daemon runs or not.  The daemon's
\* own state is no part of this specification and stays as it is.
InitUI ==
    /\ hasGovernorFile = [c \in Cores |-> TRUE]
    /\ scaling_governor = [c \in Cores |-> "powersave"]
    /\ scaling_available_governors = KernelGovernors
    /\ config = "missing"
    /\ ProcessStopped
    /\ nameOwner \in BOOLEAN
    /\ CPUGovWindow

NextUI ==
    \/ \E outcome \in {"proxy", "error"} : _on_proxy_ready(outcome)
    \/ _on_retry
    \/ _on_refresh_tick
    \/ \E g \in KernelGovernors : _on_governor_clicked(g)
    \/ \E ok \in BOOLEAN, g \in ReplyGovernors : _on_get_governor_done(ok, g)
    \/ \E ok \in BOOLEAN, governors \in SUBSET KernelGovernors :
          _on_get_available_done(ok, governors)
    \/ \E ok \in BOOLEAN : _on_set_governor_done(ok)
    \/ \E ok \in BOOLEAN : _on_get_cpu_info_done(ok)
    \/ \E g \in ReplyGovernors : _on_signal(g)
    \/ NameLost
    \/ NameAcquired

SpecUI == InitUI /\ [][NextUI]_vars

\* ------------------------------------------------------------------------
\* Properties
\* ------------------------------------------------------------------------

\* A SetGovernor call has returned (with True or a fault).
SetGovernorReturned == op = "SetGovernor" /\ pc = "ready"

\* The cores _get_cpu_dirs enumerates.
Enumerated == {c \in Cores : hasGovernorFile[c]}

Granted == authLog # <<>> /\ authLog[Len(authLog)].outcome = "granted"

\* C1: a SetGovernor(g) whose g is not in the accepted set it read ends in
\* the step that read the set, with the InvalidGovernor fault naming g and
\* that set, and the step leaves every governor file as it was: no sysfs
\* write is attempted.
C1_InvalidGovernorRejected ==
    [][(op' = "SetGovernor" /\ governor' \notin available')
        => /\ pc' = "ready"
           /\ result' = Fault(InvalidGovernorError, governor', available')
           /\ attempted' = {}
           /\ scaling_governor' = scaling_governor]_vars

C1_Witness ==
    /\ SetGovernorReturned
    /\ governor = "turbo"
    /\ available = {"performance", "powersave"}
    /\ result.name = InvalidGovernorError
    /\ result.value = "turbo"
    /\ result.accepted = {"performance", "powersave"}

C3_AuthorizedPerCall ==
    (op = "SetGovernor" /\ attempted # {})
        => /\ Len(authLog) = 1
           /\ authLog[1].subject = sender
           /\ authLog[1].action = POLKIT_ACTION_SET
           /\ authLog[1].outcome = "granted"

\* A second successful call by another sender, after a first one was saved.
C3_Witness ==
    /\ SetGovernorReturned
    /\ result = Success
    /\ lastSaved # "None"
    /\ configBefore \in KernelGovernors
    /\ configBefore # governor
    /\ attempted = Enumerated
    /\ Cardinality(attempted) >= 2
    /\ authLog = <<[subject |-> sender, action |-> POLKIT_ACTION_SET, outcome |-> "granted"]>>

\* C4: when a SetGovernor(g) call has returned True, the governor file of
\* every enumerated core holds g.
C4_SuccessAppliesToAllCores ==
    (SetGovernorReturned /\ result = Success)
        => \A c \in Enumerated : scaling_governor[c] = governor

C4_Witness ==
    /\ SetGovernorReturned
    /\ result = Success
    /\ Cardinality(Enumerated) >= 2
    /\ \A c \in Enumerated : scaling_governor[c] = "performance"
    /\ governor = "performance"

\* C5 as stated: when a SetGovernor(g) call has returned True, the persisted
\* record is g.
C5_Original ==
    (SetGovernorReturned /\ result = Success) => config = governor

\* C5, amended: when a SetGovernor(g) call has returned True and its
\* _save_governor wrote the file, the persisted record is g; and the record
\* is the governor of the latest call whose save wrote the file, until a
\* later save fails while writing.
C5_RecordIsLatestSaved ==
    /\ (SetGovernorReturned /\ result = Success /\ saveLog = <<"ok">>)
          => config = governor
    /\ lastSaved # "None" => config = lastSaved

\* A successful call has overwritten the record of an earlier one.
C5_Witness ==
    /\ SetGovernorReturned
    /\ result = Success
    /\ saveLog = <<"ok">>
    /\ configBefore = "powersave"
    /\ governor = "performance"
    /\ config = "performance"
    /\ lastSaved = "performance"

\* C6: when construction has run restore on a record {"governor": g} it
\* loaded, with g in the accepted set read at startup and no write failing,
\* the governor file of every enumerated core holds g, whatever it held
\* before.
C6_RestoreRoundTrip ==
    (op = "restore" /\ pc = "ready" /\ configBefore \in GovernorNames
       /\ governor = configBefore /\ governor \in available /\ failed = {})
        => \A c \in Enumerated : scaling_governor[c] = governor

C6_Witness ==
    /\ op = "restore" /\ pc = "ready"
    /\ configBefore = "powersave" /\ governor = "powersave"
    /\ "powersave" \in available
    /\ failed = {}
    /\ Cardinality(Enumerated) >= 2
    /\ attempted = Enumerated
    /\ \A c \in Enumerated : scaling_governor[c] = "powersave"

\* C7: a restore whose loaded governor is not in the accepted set it read from
\* the first enumerated core ends in the step that read the set; that step
\* attempts no sysfs write and leaves the governor files and the persisted
\* record as they were.
C7_UnavailableSavedSkipped ==
    [][(op' = "restore" /\ governor' \in GovernorNames /\ cpu_dirs' # <<>>
          /\ governor' \notin available')
        => /\ pc' = "ready"
           /\ attempted' = {}
           /\ scaling_governor' = scaling_governor
           /\ config' = config
           /\ config' = configBefore']_vars

C7_Witness ==
    /\ op = "restore" /\ pc = "ready"
    /\ governor = "performance"
    /\ cpu_dirs # <<>>
    /\ available = {"powersave"}
    /\ attempted = {}
    /\ config = "performance"

\* C8: when a SetGovernor(g) call has returned after a sysfs write of it
\* failed, it has attempted the write of every core it enumerated, and every
\* core whose write did not fail holds g.
C8_ContinuesAfterWriteFailure ==
    (SetGovernorReturned /\ failed # {})
        => /\ attempted = {cpu_dirs[i] : i \in 1..Len(cpu_dirs)}
           /\ \A c \in attempted \ failed : scaling_governor[c] = governor

\* C9: when a SetGovernor(g) call has returned after validation, grant and
\* its attempt at the writes, it has emitted GovernorChanged(g), also when a
\* write failed.
C9_BroadcastAfterWrites ==
    (SetGovernorReturned /\ Granted) => emitted = <<governor>>

\* C10: a SetGovernor call whose authorization was denied, whose authority
\* was unreachable or whose authorization call timed out has failed with the
\* NotAuthorized fault, without sysfs write, signal or save.
C10_NoGrantIsNotAuthorized ==
    (op = "SetGovernor" /\ authLog # <<>>
       /\ authLog[1].outcome \in {"denied", "unreachable", "timeout"})
        => /\ pc = "ready"
           /\ result.name = NotAuthorizedError
           /\ attempted = {}
           /\ emitted = <<>>
           /\ saveLog = <<>>
           /\ config = configBefore

\* C11: when the _save_governor of a SetGovernor(g) call has failed, the call
\* has returned True, not a fault, and every enumerated core still holds the
\* g the call wrote.
C11_SaveFailureAbsorbed ==
    (op = "SetGovernor" /\ saveLog # <<>> /\ saveLog[1] # "ok")
        => /\ pc = "ready"
           /\ result = Success
           /\ \A c \in Enumerated : scaling_governor[c] = governor

C11_Witness ==
    /\ SetGovernorReturned
    /\ saveLog = <<"fail_write">>
    /\ result = Success
    /\ governor = "performance"
    /\ configBefore = "powersave"
    /\ Cardinality(Enumerated) >= 2
    /\ \A c \in Enumerated : scaling_governor[c] = "performance"

\* C12: when a SetGovernor(g) call has returned True, it has emitted exactly
\* one GovernorChanged signal, and that signal carries g.
C12_OneSignalPerSuccess ==
    (SetGovernorReturned /\ result = Success) => emitted = <<governor>>

C12_Witness ==
    /\ SetGovernorReturned
    /\ result = Success
    /\ governor = "powersave"
    /\ emitted = <<"powersave">>
    /\ attempted # {}

\* C14: when GetCpuInfo has returned, its core count is the length of its
\* per-core list; on a system where no core is enumerated it has returned
\* normally, with core count 0 and an empty per-core list.
C14_SnapshotCountsCores ==
    (op = "GetCpuInfo")
        => /\ reply.info.core_count = Len(reply.info.per_core)
           /\ Enumerated = {}
                => /\ result = Success
                   /\ reply.info.core_count = 0
                   /\ reply.info.per_core = <<>>

\* A snapshot of a system with cpuN directories, none of them with cpufreq.
C14_Witness ==
    /\ op = "GetCpuInfo"
    /\ pc = "ready"
    /\ Enumerated = {}
    /\ Cardinality(Cores) >= 2
    /\ result = Success
    /\ reply.info = [model |-> "Unknown", core_count |-> 0, per_core |-> <<>>]

ReadOnlyOps == {"GetGovernor", "GetAvailableGovernors", "GetCpuInfo"}

\* C15: a step that runs GetGovernor, GetAvailableGovernors or GetCpuInfo,
\* and every step up to the next operation, makes no CheckAuthorization
\* call, leaves every governor file and the persisted record as they were
\* and emits no GovernorChanged signal.
C15_ReadOnlyFrame ==
    [][op' \in ReadOnlyOps
        => /\ authLog' = <<>>
           /\ attempted' = {}
           /\ emitted' = <<>>
           /\ saveLog' = <<>>
           /\ scaling_governor' = scaling_governor
           /\ config' = config
           /\ pc' = "ready"]_vars

\* GetCpuInfo has run on a system with a saved record that a core differs from.
C15_Witness ==
    /\ op = "GetCpuInfo"
    /\ reply.info.core_count >= 2
    /\ config = "performance"
    /\ lastSaved = "performance"
    /\ \E c \in Enumerated : scaling_governor[c] = "powersave"

\* The contents of CONFIG_PATH that are no record of a governor name.
NoGovernorRecord == {"missing", "notjson", "nonobject", "nokey", "nonstring"}

\* C16: the load of a restore has returned "absent" or the value the record
\* holds, never raised; and for a file that is missing, not JSON, or JSON
\* that is no object holding a governor name, restore has ended without a
\* sysfs write and the daemon is up.
C16_LoadFailsSoft ==
    (op = "restore")
        => /\ governor \in {"None", configBefore}
           /\ configBefore \in NoGovernorRecord
                => (pc = "ready" /\ attempted = {})

\* C17: a daemon that was started is restoring or ready, whatever the
\* persisted record, the accepted set and the write failures: no failure of
\* restore ends the process.
C17_StartupReachesReady ==
    (op = "restore") => pc \in {"restore_write", "ready"}

\* C18: when a restore in which a sysfs write failed has ended, it has
\* attempted the write of every core it enumerated, and every core whose
\* write did not fail holds the saved governor.
C18_RestoreContinuesAfterFailure ==
    (op = "restore" /\ pc = "ready" /\ failed # {})
        => /\ attempted = {cpu_dirs[i] : i \in 1..Len(cpu_dirs)}
           /\ attempted = Enumerated
           /\ \A c \in attempted \ failed : scaling_governor[c] = governor

\* The write of the first core failed, the second core was still written.
C18_Witness ==
    /\ op = "restore" /\ pc = "ready"
    /\ cpu_dirs = <<2, 10>>
    /\ failed = {2}
    /\ attempted = {2, 10}
    /\ governor = "powersave"
    /\ scaling_governor[2] = "performance"
    /\ scaling_governor[10] = "powersave"

\* The cores whose write SetGovernor has to attempt.
ToWrite == {cpu_dirs[i] : i \in 1..Len(cpu_dirs)}

\* C19: the steps of a SetGovernor call come in one order.  The polkit check
\* is made after the membership check passed and before any write; a write
\* is made after the grant and before signal and save; the signal is emitted
\* after the write of every enumerated core was attempted and before the
\* record is written; the record is written after the signal; True is
\* returned after the save.
C19_StepOrder ==
    [][/\ Len(authLog') > Len(authLog)
          => (governor \in available /\ attempted = {} /\ emitted = <<>> /\ saveLog = <<>>)
       /\ (op = "SetGovernor" /\ attempted' \ attempted # {})
          => (Granted /\ emitted = <<>> /\ saveLog = <<>>)
       /\ Len(emitted') > Len(emitted)
          => (Granted /\ attempted = ToWrite /\ failed = {} /\ saveLog = <<>>
              /\ config' = config /\ result' = NoResult)
       /\ Len(saveLog') > Len(saveLog)
          => (emitted = <<governor>> /\ attempted = ToWrite /\ result = NoResult)
       /\ (result' = Success /\ result # Success /\ op' = "SetGovernor")
          => Len(saveLog') = 1]_vars

\* A call that went through all its steps on two cores.
C19_Witness ==
    /\ SetGovernorReturned
    /\ result = Success
    /\ Len(authLog) = 1
    /\ attempted = {2, 10}
    /\ emitted = <<governor>>
    /\ saveLog = <<"ok">>

\* C20 as stated: in every state from which SetGovernor or restore makes its
\* next sysfs write, the governor it writes is a member of the accepted set
\* the kernel offers in that state.
C20_WrittenGovernorIsCurrentMember ==
    (pc \in {"set_write", "restore_write"})
        => governor \in scaling_available_governors

\* C20, amended: every sysfs write of SetGovernor and of restore writes a
\* governor that is a member of the accepted set that same operation read
\* for its validation, and that set was the one the kernel offered when it
\* was read.
C20_WrittenGovernorWasValidated ==
    [][/\ (attempted' \ attempted # {})
          => (governor \in available /\ governor' = governor /\ available' = available)
       /\ (op' \in {"SetGovernor", "restore"} /\ available' # available)
          => available' = GetAvailableGovernors]_vars

\* A SetGovernor call goes on writing a governor the kernel withdrew after
\* the call had validated it.
C20_Witness ==
    /\ op = "SetGovernor"
    /\ pc = "set_write"
    /\ idx = 2
    /\ attempted = {2}
    /\ governor \in available
    /\ governor \notin scaling_available_governors

\* C13: when a SetGovernor call has returned on a system where no core is
\* enumerated, it has failed with a fault that is not InvalidGovernor (the
\* Unavailable fault), and has attempted no sysfs write.
C13_NoCoresIsUnavailable ==
    (SetGovernorReturned /\ Enumerated = {})
        => /\ result \notin {NoResult, Success}
           /\ result.name # InvalidGovernorError
           /\ attempted = {}

\* C21: when a SetGovernor call or a restore that attempted a sysfs write
\* has ended, the cores whose write it attempted are the cores it
\* enumerated, and these are all the cores that expose the governor file:
\* no core is left out.
C21_ActsOnFullEnumeratedSet ==
    (op \in {"SetGovernor", "restore"} /\ pc = "ready" /\ attempted # {})
        => /\ attempted = ToWrite
           /\ attempted = Enumerated


\* The positions inside the SetGovernor handler.
InSetGovernor == {"set_auth", "set_enum", "set_write", "set_emit", "set_save"}

\* C22 as stated: when a valid, authorized SetGovernor call has returned
\* True right after another one that returned True for a different
\* governor, every enumerated core holds the governor of the later call and
\* so does the persisted record.
C22_Original ==
    (SetGovernorReturned /\ result = Success /\ previous \in GovernorNames
       /\ previous # governor)
        => /\ \A c \in Enumerated : scaling_governor[c] = governor
           /\ config = governor

\* C22, amended: a step taken while a SetGovernor handler is running is a
\* step of that handler (the kernel apart): no other call begins, and a
\* write made before the handler returns writes its governor; and when a
\* SetGovernor call has returned True right after another one that returned
\* True for a different governor, every enumerated core holds the governor
\* of the later call, and the persisted record holds it when the save of
\* the later call wrote the file.
C22_CallsRunToCompletion ==
    [][/\ pc \in InSetGovernor
          => /\ op' = "SetGovernor" /\ governor' = governor /\ sender' = sender
             /\ previous' = previous
             /\ \A c \in Cores : scaling_governor'[c] \in {scaling_governor[c], governor}
       /\ (op' = "SetGovernor" /\ pc' = "ready" /\ result' = Success
             /\ previous' \in GovernorNames /\ previous' # governor')
          => /\ \A c \in Enumerated : scaling_governor'[c] = governor'
             /\ saveLog' = <<"ok">> => config' = governor']_vars

\* Two calls in a row on two cores that held the governor of the first.
C22_Witness ==
    /\ SetGovernorReturned
    /\ result = Success
    /\ previous = "powersave"
    /\ governor = "performance"
    /\ attempted = {2, 10}
    /\ \A c \in Enumerated : scaling_governor[c] = "performance"
    /\ saveLog = <<"ok">>
    /\ config = "performance"


C24_RecordFrame ==
    [][/\ config' # config
          => (op = "SetGovernor" /\ pc = "set_save" /\ result' = Success)
       /\ config \in GovernorNames => config' \in GovernorNames]_vars


\* C27: a step that emits a GovernorChanged signal is a step of a
\* SetGovernor(g) call whose g was in the accepted set it read and whose one
\* CheckAuthorization, made for its sender, was granted, and the signal
\* carries g; a restore, a read-only method, a SetGovernor whose governor was
\* rejected and a SetGovernor without grant have emitted no signal.
C27_SignalOnlyFromGrantedCall ==
    [][/\ Len(emitted') > Len(emitted)
          => /\ op = "SetGovernor" /\ op' = "SetGovernor"
             /\ governor \in available
             /\ Len(authLog) = 1
             /\ authLog[1].outcome = "granted"
             /\ authLog[1].subject = sender
             /\ emitted' = Append(emitted, governor)
       /\ op' \in ReadOnlyOps \cup {"restore", "none"} => emitted' = <<>>
       /\ (op' = "SetGovernor" /\ (governor' \notin available' \/ ~Granted'))
          => emitted' = <<>>]_vars

\* The signal of a granted call of the second sender, before its save.
C27_Witness ==
    /\ op = "SetGovernor"
    /\ pc = "set_save"
    /\ governor = "performance"
    /\ "performance" \in available
    /\ authLog = <<[subject |-> ":1.11", action |-> POLKIT_ACTION_SET,
                    outcome |-> "granted"]>>
    /\ emitted = <<"performance">>


\* The callbacks of method m in a handler's log, by who invoked them.
CallbacksOf(L, m, on) ==
    {i \in 1..Len(L.callbacks) : L.callbacks[i].method = m /\ L.callbacks[i].on = on}

\* C25: in every handler, each call of a request method made while the
\* client is not connected invokes its callback there and then, with no
\* value and the error "Not connected to daemon", and sends nothing; each
\* call made while it is connected sends one call and invokes no callback;
\* a callback is invoked on completion by the _done handler of a call that
\* was in flight, once, and takes that call out of flight; it carries a
\* value and no error, or no value and an error.
C25_CallbackOncePerCall ==
    [][LET L == rpcLog'
       IN  \A m \in Methods :
             /\ IF is_connected'
                THEN /\ Count(L.sent, m) = Count(L.called, m)
                     /\ CallbacksOf(L, m, "call") = {}
                ELSE /\ Count(L.sent, m) = 0
                     /\ Cardinality(CallbacksOf(L, m, "call")) = Count(L.called, m)
                     /\ \A i \in CallbacksOf(L, m, "call") :
                           /\ L.callbacks[i].error = "Not connected to daemon"
                           /\ L.callbacks[i].result = NoValue(m)
             /\ Cardinality(CallbacksOf(L, m, "completion"))
                  = IF L.completed = m THEN 1 ELSE 0
             /\ L.completed = m => inflight[m] > 0
             /\ inflight'[m] = inflight[m] + Count(L.sent, m)
                                 - (IF L.completed = m THEN 1 ELSE 0)
             /\ \A i \in CallbacksOf(L, m, "completion") :
                   \/ /\ L.callbacks[i].error = "None"
                      /\ L.callbacks[i].result \notin {"None", "False"}
                   \/ /\ L.callbacks[i].error # "None"
                      /\ L.callbacks[i].result = NoValue(m)]_vars

\* A button of the main view was clicked after the daemon had stopped, with
\* two GetGovernor calls still in flight: set_governor and the refresh that
\* follows its error each called back at once, and nothing was sent.
C25_Witness ==
    /\ ~is_connected
    /\ rpcLog.called = <<"SetGovernor", "GetGovernor", "GetCpuInfo">>
    /\ rpcLog.sent = <<>>
    /\ Len(rpcLog.callbacks) = 3
    /\ rpcLog.callbacks[1] =
          Callback("SetGovernor", "call", "False", "Not connected to daemon")
    /\ inflight["GetGovernor"] = 2

\* C26: when the window has seen the daemon unavailable, at connect time
\* or at a tick of its refresh timer, it shows the error view with its
\* Retry button, or is connecting again, or still has its refresh timer.
C26_UnavailableIsRetriable ==
    (observed # "none") => (view = "error" \/ connectCall \/ _refresh_timer)


====
